---- MODULE Spec2Model ----
(***************************************************************************)
(* A model of analyze_cpp_codebase.py: the chunking pipeline (boundary     *)
(* splitter, chunk filter, chunk packer), the completion driver, the patch *)
(* extractor/applier and the per-file processing loop.                     *)
(*                                                                         *)
(* Texts are sequences of one-character strings, so that the line and      *)
(* marker handling of the code is computed character by character.         *)
(***************************************************************************)
EXTENDS Integers, Sequences, FiniteSets, TLC

VARIABLES
    \* harness around filter_code_chunk
    f_in,               \* the chunk handed to filter_code_chunk
    f_out,              \* filter_code_chunk(f_in)
    f_again,            \* filter_code_chunk(f_out)
    f_pc,               \* "init" | "filtered" | "refiltered"
    \* split_code_into_chunks
    code,               \* the source text
    marks,              \* start offsets of the boundary-kind cursors, in pre-order
    max_code_length,    \* the length budget L
    code_parts,         \* result of split_code_based_on_boundary
    part_idx,           \* index of the next part of the for loop
    chunk,              \* the running buffer
    chunks,             \* the chunks emitted so far
    filtered_parts,     \* history: filter_code_chunk(part) of the parts consumed
    chunk_parts,        \* history: indices of the parts appended to the buffer
    chunks_parts,       \* history: for each emitted chunk, the indices of its parts
    c_pc,               \* "start" | "packing" | "done"
    \* analyze_code
    messages,           \* the message list (the caller's list, mutated in place)
    analysis_interval,  \* config["analysis_interval"]
    retries,            \* the retry counter
    response_text,      \* the last response text
    requests,           \* history: every service call, with the messages sent and its outcome
    sleeps,             \* history: the delays slept, in order
    a_pc,               \* "entry" | "loop" | "returned" | "raised"
    \* harness around extract_patch_text and apply_suggested_changes
    p_original,         \* original_code
    p_response,         \* response_text
    p_patch_text,       \* extract_patch_text(p_response)
    p_result,           \* what apply_suggested_changes returned
    p_error,            \* "none", or what apply_suggested_changes raised: "parse" | "apply"
    p_pc,               \* "init" | "extracted" | "applied" | "failed"
    \* analyze_files and process_file
    project,            \* the project folder: for every .cpp file its text and boundary offsets
    existing_headers,   \* the headers for which os.path.exists holds
    header_dependencies,\* the dict, in insertion order: <<[header, sources], ...>>
    file_idx,           \* position of the loop over the .cpp files
    hdr_idx,            \* position of the loop over header_dependencies.items()
    af_pc,              \* "files" | "headers" | "done"
    pf_pc,              \* position in the try block of the current file
    combined_code,      \* process_file: the text read from the file
    raised_in,          \* the step whose failure is propagating
    fs,                 \* the output folder: the files written, [path, text]
    db,                 \* the committed CodeFile/CodeAnalysis records, in order
    attempted,          \* history: the files and headers whose try block was entered
    errors              \* history: the "Error processing ..." lines printed

filterVars == <<f_in, f_out, f_again, f_pc>>

chunkVars == <<code, marks, max_code_length, code_parts, part_idx, chunk, chunks,
               filtered_parts, chunk_parts, chunks_parts, c_pc>>

driverVars == <<messages, analysis_interval, retries, response_text, requests, sleeps, a_pc>>

patchVars == <<p_original, p_response, p_patch_text, p_result, p_error, p_pc>>

fileVars == <<project, existing_headers, header_dependencies, file_idx, hdr_idx, af_pc,
              pf_pc, combined_code, raised_in, fs, db, attempted, errors>>

vars == <<filterVars, chunkVars, driverVars, patchVars, fileVars>>

\* what the actions of one component leave alone
notFilter == <<chunkVars, driverVars, patchVars, fileVars>>
notChunks == <<filterVars, driverVars, patchVars, fileVars>>
notDriver == <<filterVars, chunkVars, patchVars, fileVars>>
notPatch == <<filterVars, chunkVars, driverVars, fileVars>>

----------------------------------------------------------------------------
(* Bounds of the model *)

MaxChunkLen == 5
MaxCodeLen == 4
MaxMarks == 2
MaxL == 3
MaxCalls == 5
MaxInterval == 2
MaxTokens == 3

----------------------------------------------------------------------------
(* Characters and Python's str operations *)

NL == "\n"
SP == " "
SLASH == "/"
STAR == "*"
\* the backquote of a code fence (written as a quote: the parser accepts no
\* backquote inside a string)
TICK == "'"

Whitespace == {SP, NL}

\* every text of at most n characters over the alphabet A
Texts(A, n) == UNION {[1..k -> A] : k \in 0..n}

\* s[a:b] of Python for 0 <= a, 0 <= b (both clamped to len(s); empty if a >= b)
Slice(s, a, b) ==
    LET lo == IF a > Len(s) THEN Len(s) ELSE a
        hi == IF b > Len(s) THEN Len(s) ELSE b
    IN  IF lo >= hi THEN <<>> ELSE SubSeq(s, lo + 1, hi)

startswith(s, p) == Len(s) >= Len(p) /\ SubSeq(s, 1, Len(p)) = p

endswith(s, p) == Len(s) >= Len(p) /\ SubSeq(s, Len(s) - Len(p) + 1, Len(s)) = p

\* str.strip(): leading and trailing whitespace removed
RECURSIVE lstrip(_)
lstrip(s) == IF s # <<>> /\ Head(s) \in Whitespace THEN lstrip(Tail(s)) ELSE s

RECURSIVE rstrip(_)
rstrip(s) ==
    IF s # <<>> /\ s[Len(s)] \in Whitespace THEN rstrip(SubSeq(s, 1, Len(s) - 1)) ELSE s

strip(s) == rstrip(lstrip(s))

\* str.splitlines(): the lines without their terminators; a terminator at the
\* very end opens no further (empty) line, and the empty text has no line
splitlines(s) ==
    LET RECURSIVE go(_, _, _)
        go(i, cur, acc) ==
            IF i > Len(s) THEN (IF cur = <<>> THEN acc ELSE Append(acc, cur))
            ELSE IF s[i] = NL THEN go(i + 1, <<>>, Append(acc, cur))
            ELSE go(i + 1, Append(cur, s[i]), acc)
    IN  go(1, <<>>, <<>>)

\* str.split('\n'): always at least one field, empty fields kept
split_nl(s) ==
    LET RECURSIVE go(_, _, _)
        go(i, cur, acc) ==
            IF i > Len(s) THEN Append(acc, cur)
            ELSE IF s[i] = NL THEN go(i + 1, <<>>, Append(acc, cur))
            ELSE go(i + 1, Append(cur, s[i]), acc)
    IN  go(1, <<>>, <<>>)

\* sep.join(items)
RECURSIVE join(_, _)
join(sep, items) ==
    IF items = <<>> THEN <<>>
    ELSE IF Len(items) = 1 THEN items[1]
    ELSE items[1] \o sep \o join(sep, Tail(items))

\* "".join(items)
RECURSIVE concat(_)
concat(items) == IF items = <<>> THEN <<>> ELSE Head(items) \o concat(Tail(items))

----------------------------------------------------------------------------
(* filter_code_chunk *)

\* the loop of filter_code_chunk over the lines, from line i on, with the
\* multi_line_comment flag and the filtered_lines collected so far
RECURSIVE filter_lines(_, _, _, _)
filter_lines(lines, i, multi_line_comment, filtered_lines) ==
    IF i > Len(lines) THEN filtered_lines
    ELSE LET line == lines[i]
             stripped_line == strip(line)
             in_comment == multi_line_comment \/ startswith(stripped_line, <<SLASH, STAR>>)
             keep == /\ ~in_comment
                     /\ ~startswith(stripped_line, <<SLASH, SLASH>>)
                     /\ stripped_line # <<>>
         IN  filter_lines(lines, i + 1,
                          IF endswith(stripped_line, <<STAR, SLASH>>) THEN FALSE ELSE in_comment,
                          IF keep THEN Append(filtered_lines, line) ELSE filtered_lines)

\* a variant that joins the kept lines without the separator
filter_code_chunk_nosep(text) ==
    concat(filter_lines(splitlines(text), 1, FALSE, <<>>))

filter_code_chunk(text) ==
    join(<<NL>>, filter_lines(splitlines(text), 1, FALSE, <<>>))

----------------------------------------------------------------------------
(* The harness around filter_code_chunk: filter a chunk, then filter the   *)
(* result again.                                                           *)

CodeAlphabet == {"a", SP, NL, SLASH, STAR}

IdleFilter ==
    /\ f_in = <<>>
    /\ f_out = <<>>
    /\ f_again = <<>>
    /\ f_pc = "idle"

IdleChunks ==
    /\ code = <<>>
    /\ marks = <<>>
    /\ max_code_length = 0
    /\ code_parts = <<>>
    /\ part_idx = 0
    /\ chunk = <<>>
    /\ chunks = <<>>
    /\ filtered_parts = <<>>
    /\ chunk_parts = <<>>
    /\ chunks_parts = <<>>
    /\ c_pc = "idle"

IdleDriver ==
    /\ messages = <<>>
    /\ analysis_interval = 0
    /\ retries = 0
    /\ response_text = <<>>
    /\ requests = <<>>
    /\ sleeps = <<>>
    /\ a_pc = "idle"

IdlePatch ==
    /\ p_original = <<>>
    /\ p_response = <<>>
    /\ p_patch_text = <<>>
    /\ p_result = <<>>
    /\ p_error = "none"
    /\ p_pc = "idle"

IdleFiles ==
    /\ project = <<>>
    /\ existing_headers = {}
    /\ header_dependencies = <<>>
    /\ file_idx = 0
    /\ hdr_idx = 0
    /\ af_pc = "idle"
    /\ pf_pc = "idle"
    /\ combined_code = <<>>
    /\ raised_in = "none"
    /\ fs = {}
    /\ db = <<>>
    /\ attempted = <<>>
    /\ errors = <<>>

InitFilter ==
    /\ f_in \in Texts(CodeAlphabet, MaxChunkLen)
    /\ f_out = <<>>
    /\ f_again = <<>>
    /\ f_pc = "init"
    /\ IdleChunks
    /\ IdleDriver
    /\ IdlePatch
    /\ IdleFiles

FilterCall ==
    /\ f_pc = "init"
    /\ f_out' = filter_code_chunk(f_in)
    /\ f_pc' = "filtered"
    /\ UNCHANGED <<f_in, f_again, notFilter>>

FilterAgain ==
    /\ f_pc = "filtered"
    /\ f_again' = filter_code_chunk(f_out)
    /\ f_pc' = "refiltered"
    /\ UNCHANGED <<f_in, f_out, notFilter>>

NextFilter ==
    \/ FilterCall
    \/ FilterAgain

SpecFilter == InitFilter /\ [][NextFilter]_vars

----------------------------------------------------------------------------
(* What the lines of a text are in C++ terms, independently of the filter: *)
(* a scan of the characters that follows // comments to the end of their   *)
(* line and block comments to their closing marker.                        *)

\* for every line of splitlines(s): TRUE iff the line holds a character that
\* is neither whitespace nor part of a comment
LineHasCode(s) ==
    LET RECURSIVE scan(_, _, _, _, _)
        scan(i, mode, has_code, started, acc) ==
            IF i > Len(s) THEN (IF started THEN Append(acc, has_code) ELSE acc)
            ELSE IF s[i] = NL
                 THEN scan(i + 1, IF mode = "line" THEN "code" ELSE mode,
                           FALSE, FALSE, Append(acc, has_code))
            ELSE IF mode = "code" /\ i < Len(s) /\ s[i] = SLASH /\ s[i + 1] = SLASH
                 THEN scan(i + 2, "line", has_code, TRUE, acc)
            ELSE IF mode = "code" /\ i < Len(s) /\ s[i] = SLASH /\ s[i + 1] = STAR
                 THEN scan(i + 2, "block", has_code, TRUE, acc)
            ELSE IF mode = "block" /\ i < Len(s) /\ s[i] = STAR /\ s[i + 1] = SLASH
                 THEN scan(i + 2, "code", has_code, TRUE, acc)
            ELSE scan(i + 1, mode, has_code \/ (mode = "code" /\ s[i] # SP), TRUE, acc)
    IN  scan(1, "code", FALSE, FALSE, <<>>)

\* the lines of s that carry code text, in order
CodeLines(s) ==
    LET lines == splitlines(s)
        has == LineHasCode(s)
        RECURSIVE pick(_)
        pick(i) == IF i > Len(lines) THEN <<>>
                   ELSE (IF has[i] THEN <<lines[i]>> ELSE <<>>) \o pick(i + 1)
    IN  pick(1)

\* a is b with some elements left out (order kept)
RECURSIVE IsSubseq(_, _)
IsSubseq(a, b) ==
    IF a = <<>> THEN TRUE
    ELSE IF b = <<>> THEN FALSE
    ELSE IF Head(a) = Head(b) THEN IsSubseq(Tail(a), Tail(b))
    ELSE IsSubseq(a, Tail(b))

\* C5 (as claimed): filter_code_chunk removes only comment-only and blank
\* lines: every line of the input that carries code text is in the output,
\* its content unchanged, and the kept lines are in their input order.
C5_CodeLinesKept ==
    f_pc # "init" => IsSubseq(CodeLines(f_in), splitlines(f_out))

\* C6 (as claimed): a chunk with no comment-only line and no blank line (every
\* line carries code) is returned unchanged by filter_code_chunk.
C6_CleanChunkUnchanged ==
    (f_pc # "init" /\ \A i \in DOMAIN LineHasCode(f_in) : LineHasCode(f_in)[i])
        => f_out = f_in

\* C6 (amended): filtering an output of filter_code_chunk again returns
\* exactly the same text.
C6_FilterIdempotent ==
    f_pc = "refiltered" => f_again = f_out

\* C6 witness: a chunk from which the filter removed lines and kept others
\* has been filtered a second time.
C6_Witness ==
    /\ f_pc = "refiltered"
    /\ f_out # <<>>
    /\ Len(splitlines(f_out)) < Len(splitlines(f_in))
    /\ Len(splitlines(f_out)) >= 2

----------------------------------------------------------------------------
(* split_code_based_on_boundary.  The parser is outside the program: what  *)
(* the loop reads of it is, for every cursor of a boundary kind in         *)
(* pre-order, cursor.extent.start.offset; these offsets are the input      *)
(* `marks`.                                                                 *)

\* the for loop from cursor i on, with current_part_start and the code_parts
\* collected so far, followed by the trailing part
RECURSIVE split_loop(_, _, _, _, _)
split_loop(text, offsets, i, current_part_start, parts) ==
    IF i > Len(offsets)
    THEN IF current_part_start < Len(text)
         THEN Append(parts, Slice(text, current_part_start, Len(text)))
         ELSE parts
    ELSE IF current_part_start < Len(text)
         THEN split_loop(text, offsets, i + 1, offsets[i],
                         Append(parts, Slice(text, current_part_start, offsets[i])))
         ELSE split_loop(text, offsets, i + 1, current_part_start, parts)

\* a variant whose trailing part is emitted also when nothing is left
RECURSIVE split_loop_tail(_, _, _, _, _)
split_loop_tail(text, offsets, i, current_part_start, parts) ==
    IF i > Len(offsets)
    THEN IF current_part_start <= Len(text)
         THEN Append(parts, Slice(text, current_part_start, Len(text)))
         ELSE parts
    ELSE IF current_part_start < Len(text)
         THEN split_loop_tail(text, offsets, i + 1, offsets[i],
                              Append(parts, Slice(text, current_part_start, offsets[i])))
         ELSE split_loop_tail(text, offsets, i + 1, current_part_start, parts)

split_always_tail(text, offsets) ==
    split_loop_tail(text, offsets, 1, 0, <<>>)

\* a variant that returns after the for loop, without the trailing part
RECURSIVE split_loop_notail(_, _, _, _, _)
split_loop_notail(text, offsets, i, current_part_start, parts) ==
    IF i > Len(offsets)
    THEN parts
    ELSE IF current_part_start < Len(text)
         THEN split_loop_notail(text, offsets, i + 1, offsets[i],
                                Append(parts, Slice(text, current_part_start, offsets[i])))
         ELSE split_loop_notail(text, offsets, i + 1, current_part_start, parts)

split_no_tail(text, offsets) ==
    split_loop_notail(text, offsets, 1, 0, <<>>)

split_code_based_on_boundary(text, offsets) ==
    split_loop(text, offsets, 1, 0, <<>>)

----------------------------------------------------------------------------
(* split_code_into_chunks: the call of the splitter, one action per        *)
(* iteration of the for loop, and the final flush.                         *)

PackAlphabet == {"a", NL}

\* every sequence of at most n elements of S
SeqsUpTo(S, n) == UNION {[1..k -> S] : k \in 0..n}

InitChunks ==
    /\ code \in Texts(PackAlphabet, MaxCodeLen)
    /\ marks \in SeqsUpTo(0..MaxCodeLen, MaxMarks)
    /\ max_code_length \in (0 - 1)..MaxL
    /\ code_parts = <<>>
    /\ part_idx = 0
    /\ chunk = <<>>
    /\ chunks = <<>>
    /\ filtered_parts = <<>>
    /\ chunk_parts = <<>>
    /\ chunks_parts = <<>>
    /\ c_pc = "start"
    /\ IdleFilter
    /\ IdleDriver
    /\ IdlePatch
    /\ IdleFiles

\* lines 106-108
SplitCall ==
    /\ c_pc = "start"
    /\ code_parts' = split_code_based_on_boundary(code, marks)
    /\ chunks' = <<>>
    /\ chunk' = <<>>
    /\ part_idx' = 1
    /\ c_pc' = "packing"
    /\ UNCHANGED <<code, marks, max_code_length, filtered_parts, chunk_parts,
                   chunks_parts, notChunks>>

\* whether the buffer is flushed before a part of the given length (line 111)
flush_before(buffer_len, part_len, limit) == buffer_len + part_len > limit

\* lines 109-114: one iteration of the for loop
PackPart ==
    /\ c_pc = "packing"
    /\ part_idx <= Len(code_parts)
    /\ LET filtered_part == filter_code_chunk(code_parts[part_idx])
           flush == flush_before(Len(chunk), Len(filtered_part), max_code_length)
       IN  /\ chunks' = IF flush THEN Append(chunks, chunk) ELSE chunks
           /\ chunk' = (IF flush THEN <<>> ELSE chunk) \o filtered_part
           /\ filtered_parts' = Append(filtered_parts, filtered_part)
           /\ chunks_parts' = IF flush THEN Append(chunks_parts, chunk_parts)
                              ELSE chunks_parts
           /\ chunk_parts' = Append(IF flush THEN <<>> ELSE chunk_parts, part_idx)
    /\ part_idx' = part_idx + 1
    /\ UNCHANGED <<code, marks, max_code_length, code_parts, c_pc, notChunks>>

\* a variant that returns without the final flush
PackReturn_noflush ==
    /\ c_pc = "packing"
    /\ part_idx > Len(code_parts)
    /\ c_pc' = "done"
    /\ UNCHANGED <<code, marks, max_code_length, code_parts, part_idx, chunk, chunks,
                   filtered_parts, chunk_parts, chunks_parts, notChunks>>

\* lines 115-117: the final flush and the return
PackReturn ==
    /\ c_pc = "packing"
    /\ part_idx > Len(code_parts)
    /\ chunks' = IF chunk # <<>> THEN Append(chunks, chunk) ELSE chunks
    /\ chunks_parts' = IF chunk # <<>> THEN Append(chunks_parts, chunk_parts)
                       ELSE chunks_parts
    /\ c_pc' = "done"
    /\ UNCHANGED <<code, marks, max_code_length, code_parts, part_idx, chunk,
                   filtered_parts, chunk_parts, notChunks>>

NextChunks ==
    \/ SplitCall
    \/ PackPart
    \/ PackReturn

SpecChunks == InitChunks /\ [][NextChunks]_vars

----------------------------------------------------------------------------
(* Claims about the splitter and the packer *)

\* the filtered parts, computed from the parts the splitter returned
FilteredOf(parts) == [i \in DOMAIN parts |-> filter_code_chunk(parts[i])]

\* the elements of s at the indices idx, in that order
PartsAt(s, idx) == [k \in DOMAIN idx |-> s[idx[k]]]

StrictlyIncreasing(s) == \A i, j \in DOMAIN s : i < j => s[i] < s[j]

C4_OnePartForAnyText ==
    (c_pc # "start" /\ marks = <<>>) => code_parts = <<code>>

\* C4 (amended): with no boundary cursor the splitter returns exactly one part,
\* the whole input, for every non-empty text, and no part for the empty text.
C4_OnePartUnlessEmpty ==
    (c_pc # "start" /\ marks = <<>>) =>
        code_parts = IF code = <<>> THEN <<>> ELSE <<code>>

\* C4 witness: a text of several lines without a boundary cursor has been split.
C4_Witness ==
    /\ c_pc # "start"
    /\ marks = <<>>
    /\ Len(splitlines(code)) >= 2
    /\ code_parts = <<code>>

\* C7 (as claimed): a returned chunk longer than L consists of exactly one
\* part, itself longer than L; a chunk of two or more non-empty parts is not
\* longer than L.
C7_OversizeIsOnePart ==
    c_pc = "done" =>
        \A k \in DOMAIN chunks :
            /\ Len(chunks[k]) > max_code_length =>
                   /\ Len(chunks_parts[k]) = 1
                   /\ Len(filtered_parts[chunks_parts[k][1]]) > max_code_length
            /\ Cardinality({j \in DOMAIN chunks_parts[k] :
                                filtered_parts[chunks_parts[k][j]] # <<>>}) >= 2
                   => Len(chunks[k]) <= max_code_length

\* C13 (as claimed): every chunk returned by split_code_into_chunks has had
\* at least one part appended to it: no flush of a buffer that no part was
\* appended to, for any parts and any L.
C13_NoChunkWithoutPart ==
    c_pc = "done" =>
        /\ Len(chunks_parts) = Len(chunks)
        /\ \A k \in DOMAIN chunks : Len(chunks_parts[k]) >= 1

NonDecreasing(s) == \A i, j \in DOMAIN s : i < j => s[i] <= s[j]

\* C15: for every text and every non-decreasing sequence of boundary offsets,
\* the parts split_code_based_on_boundary returns concatenate, in order, to
\* the text: nothing lost and nothing repeated, also with a boundary at
\* offset 0, at the end of the text, or several at one offset.
C15_PartsConcatToSource ==
    (c_pc # "start" /\ NonDecreasing(marks)) => concat(code_parts) = code

\* C15 witness: a text split at two boundaries at the same offset inside it:
\* three parts, the middle one empty.
C15_Witness ==
    /\ c_pc # "start"
    /\ Len(marks) = 2
    /\ marks[1] = marks[2]
    /\ 0 < marks[1] /\ marks[1] < Len(code)
    /\ Len(code_parts) = 3
    /\ code_parts[2] = <<>>

----------------------------------------------------------------------------
(* analyze_code.  The completion service is outside the program: a call    *)
(* either returns a text or raises.                                        *)

InitialRetries == 3

FENCE == <<TICK, TICK, TICK>>

\* line 135 without the strip
is_complete_nostrip(text) == endswith(text, FENCE)

\* line 135: response_text.strip().endswith('```')
is_complete(text) == endswith(strip(text), FENCE)

\* line 138: response_text.strip().split('\n')[-1]
last_line_of(text) ==
    LET fields == split_nl(strip(text)) IN fields[Len(fields)]

\* lines 139-142: the follow-up message; its content is the fixed request text
\* around the last line of the response
follow_up_message(text) ==
    [role |-> "user", content |-> <<"continue", last_line_of(text)>>]

\* the delay computed from the counter as it was before the decrement
backoff_delay_early(interval, retries_left) == interval * (2 ^ (3 - (retries_left + 1)))

\* line 147: config["analysis_interval"] * (2 ** (3 - retries)), after the decrement
backoff_delay(interval, retries_left) == interval * (2 ^ (3 - retries_left))

\* the texts the service answers with: complete ones (the fence last, also
\* before trailing whitespace) and truncated ones (no fence, the fence not
\* last, fewer than three backquotes, nothing at all)
ResponseTexts ==
    { FENCE,
      <<"a", NL>> \o FENCE \o <<NL>>,
      <<"a", NL, "b">>,
      FENCE \o <<"a", SP>>,
      <<"a", TICK, TICK>>,
      <<>> }

\* what a service call can do
Outcomes(texts) ==
    [ok : {TRUE}, text : texts] \cup {[ok |-> FALSE, text |-> <<>>]}

\* the system message of part i of n: the part prompt followed by the chunk
part_message(i, n, chunk_text) ==
    [role |-> "system", content |-> <<"part", i, n, chunk_text>>]

\* the message lists analyze_code is entered with: one message per chunk
EntryMessages ==
    { <<part_message(1, 1, <<"a">>)>>,
      <<part_message(1, 2, <<"a">>), part_message(2, 2, <<"a", NL, "a">>)>> }

InitDriver ==
    /\ messages \in EntryMessages
    /\ analysis_interval \in 1..MaxInterval
    /\ retries = 0
    /\ response_text = <<>>
    /\ requests = <<>>
    /\ sleeps = <<>>
    /\ a_pc = "entry"
    /\ IdleFilter
    /\ IdleChunks
    /\ IdlePatch
    /\ IdleFiles

\* lines 121-123
AnalyzeEnter ==
    /\ a_pc = "entry"
    /\ response_text' = <<>>
    /\ retries' = InitialRetries
    /\ requests' = <<>>
    /\ sleeps' = <<>>
    /\ a_pc' = "loop"
    /\ UNCHANGED <<messages, analysis_interval, notDriver>>

\* a variant in which a truncated response resets the retry counter
AnalyzeCall_reset(texts) ==
    /\ a_pc = "loop"
    /\ retries > 0
    /\ Len(requests) < MaxCalls
    /\ \E outcome \in Outcomes(texts) :
        /\ requests' = Append(requests, [sent |-> messages, outcome |-> outcome])
        /\ IF outcome.ok
           THEN /\ response_text' = outcome.text
                /\ IF is_complete(outcome.text)
                   THEN /\ a_pc' = "returned"
                        /\ UNCHANGED <<messages, retries>>
                   ELSE /\ messages' = Append(messages, follow_up_message(outcome.text))
                        /\ retries' = InitialRetries
                        /\ a_pc' = "loop"
                /\ UNCHANGED sleeps
           ELSE /\ retries' = retries - 1
                /\ sleeps' = Append(sleeps, backoff_delay(analysis_interval, retries'))
                /\ a_pc' = IF retries' = 0 THEN "raised" ELSE "loop"
                /\ UNCHANGED <<messages, response_text>>
    /\ UNCHANGED <<analysis_interval, notDriver>>

\* a variant in which a truncated response is counted against the retry budget
AnalyzeCall_counted(texts) ==
    /\ a_pc = "loop"
    /\ retries > 0
    /\ Len(requests) < MaxCalls
    /\ \E outcome \in Outcomes(texts) :
        /\ requests' = Append(requests, [sent |-> messages, outcome |-> outcome])
        /\ IF outcome.ok
           THEN /\ response_text' = outcome.text
                /\ IF is_complete(outcome.text)
                   THEN /\ a_pc' = "returned"
                        /\ UNCHANGED <<messages, retries>>
                   ELSE /\ messages' = Append(messages, follow_up_message(outcome.text))
                        /\ retries' = retries - 1
                        /\ a_pc' = "loop"
                /\ UNCHANGED sleeps
           ELSE /\ retries' = retries - 1
                /\ sleeps' = Append(sleeps, backoff_delay(analysis_interval, retries'))
                /\ a_pc' = IF retries' = 0 THEN "raised" ELSE "loop"
                /\ UNCHANGED <<messages, response_text>>
    /\ UNCHANGED <<analysis_interval, notDriver>>

\* a variant in which the follow-up message takes the place of the last message
AnalyzeCall_overwrite(texts) ==
    /\ a_pc = "loop"
    /\ retries > 0
    /\ Len(requests) < MaxCalls
    /\ \E outcome \in Outcomes(texts) :
        /\ requests' = Append(requests, [sent |-> messages, outcome |-> outcome])
        /\ IF outcome.ok
           THEN /\ response_text' = outcome.text
                /\ IF is_complete(outcome.text)
                   THEN /\ a_pc' = "returned"
                        /\ UNCHANGED messages
                   ELSE /\ messages' = [messages EXCEPT ![Len(messages)] =
                                            follow_up_message(outcome.text)]
                        /\ a_pc' = "loop"
                /\ UNCHANGED <<retries, sleeps>>
           ELSE /\ retries' = retries - 1
                /\ sleeps' = Append(sleeps, backoff_delay(analysis_interval, retries'))
                /\ a_pc' = IF retries' = 0 THEN "raised" ELSE "loop"
                /\ UNCHANGED <<messages, response_text>>
    /\ UNCHANGED <<analysis_interval, notDriver>>

\* lines 124-149: one iteration of the while loop, i.e. one service call (the
\* service answering with one of `texts`, or raising) and what follows it: the break (and the return of line 150), the follow-up
\* message, or the except handler.  (retries is positive whenever the loop is
\* entered: the handler raises as soon as it reaches zero.)
AnalyzeCall(texts) ==
    /\ a_pc = "loop"
    /\ retries > 0
    /\ Len(requests) < MaxCalls
    /\ \E outcome \in Outcomes(texts) :
        /\ requests' = Append(requests, [sent |-> messages, outcome |-> outcome])
        /\ IF outcome.ok
           THEN /\ response_text' = outcome.text
                /\ IF is_complete(outcome.text)
                   THEN /\ a_pc' = "returned"
                        /\ UNCHANGED messages
                   ELSE /\ messages' = Append(messages, follow_up_message(outcome.text))
                        /\ a_pc' = "loop"
                /\ UNCHANGED <<retries, sleeps>>
           ELSE /\ retries' = retries - 1
                /\ sleeps' = Append(sleeps, backoff_delay(analysis_interval, retries'))
                /\ a_pc' = IF retries' = 0 THEN "raised" ELSE "loop"
                /\ UNCHANGED <<messages, response_text>>
    /\ UNCHANGED <<analysis_interval, notDriver>>

NextDriver ==
    \/ AnalyzeEnter
    \/ AnalyzeCall(ResponseTexts)

SpecDriver == InitDriver /\ [][NextDriver]_vars

\* analyze_code runs on one thread with nothing to preempt it: an iteration of
\* the loop that can be taken is taken
SpecDriverLive == InitDriver /\ [][NextDriver]_vars /\ WF_vars(NextDriver)

----------------------------------------------------------------------------
(* Claims about analyze_code *)

\* the text, trimmed, ends with the closing code fence
TrimmedEndsWithFence(text) ==
    LET t == strip(text)
    IN  Len(t) >= 3 /\ \A i \in 0..2 : t[Len(t) - i] = TICK

DriverRunning == a_pc \in {"loop", "returned", "raised"}

FailCount(reqs) == Cardinality({j \in DOMAIN reqs : ~reqs[j].outcome.ok})

\* C2: with no transport failure, analyze_code returns at the first response
\* that, trimmed, ends with the closing fence and not before: one call if the
\* first response is complete, k+1 calls after k truncated responses, and the
\* text returned is the last (complete) response.
C2_CallsUntilComplete ==
    (DriverRunning /\ FailCount(requests) = 0) =>
        /\ a_pc # "raised"
        /\ a_pc = "loop" =>
               \A j \in DOMAIN requests : ~TrimmedEndsWithFence(requests[j].outcome.text)
        /\ a_pc = "returned" =>
               /\ Len(requests) >= 1
               /\ TrimmedEndsWithFence(requests[Len(requests)].outcome.text)
               /\ \A j \in 1..(Len(requests) - 1) :
                      ~TrimmedEndsWithFence(requests[j].outcome.text)
               /\ response_text = requests[Len(requests)].outcome.text

\* C2 witness: two truncated responses, then a complete one with whitespace
\* after its fence, and no failure: three calls and the return.
C2_Witness ==
    /\ a_pc = "returned"
    /\ FailCount(requests) = 0
    /\ Len(requests) = 3
    /\ response_text # strip(response_text)

\* The state part of C3: every transport failure takes one from the retry
\* counter, which starts at 3 and is never reset; the call after a failure
\* sends the same message list; the failure is re-raised exactly at the third
\* failure of the exchange.
C3_StateInv ==
    DriverRunning =>
        /\ retries = 3 - FailCount(requests)
        /\ (a_pc = "raised") <=> (FailCount(requests) = 3)
        /\ a_pc = "raised" => ~requests[Len(requests)].outcome.ok
        /\ \A j \in 1..(Len(requests) - 1) :
               ~requests[j].outcome.ok => requests[j + 1].sent = requests[j].sent

\* C3, with its last part: in every state the counter, the re-raise and the
\* repeated requests are as stated above, and once the failure is re-raised
\* no further service call is made.
C3_RetryBudget ==
    /\ []C3_StateInv
    /\ [][a_pc = "raised" => (requests' = requests /\ a_pc' = "raised")]_vars

\* C3 witness: the failure was re-raised in an exchange in which a truncated
\* response came between two failures.
C3_Witness ==
    /\ a_pc = "raised"
    /\ \E i, j, k \in DOMAIN requests :
           /\ i < j /\ j < k
           /\ ~requests[i].outcome.ok
           /\ requests[j].outcome.ok
           /\ ~requests[k].outcome.ok

\* the responses received that were truncated (no closing fence at the end)
IsTruncated(req) == req.outcome.ok /\ ~TrimmedEndsWithFence(req.outcome.text)

IsCompleteResponse(req) == req.outcome.ok /\ TrimmedEndsWithFence(req.outcome.text)

TruncCount(reqs) == Cardinality({j \in DOMAIN reqs : IsTruncated(reqs[j])})

Terminated == a_pc \in {"returned", "raised"}

\* the event that ends an exchange: a complete response or the third failure
EndingEvent ==
    /\ DriverRunning
    /\ \/ \E j \in DOMAIN requests : IsCompleteResponse(requests[j])
       \/ FailCount(requests) >= 3

\* The state part of C11: the retry counter depends on the failures only, so
\* after any number of truncated responses and no failure it is still 3 and
\* analyze_code has neither returned nor raised.
C11_StateInv ==
    DriverRunning =>
        /\ retries = InitialRetries - FailCount(requests)
        /\ (\A j \in DOMAIN requests : IsTruncated(requests[j])) =>
               (a_pc = "loop" /\ retries = InitialRetries)
        /\ Terminated => EndingEvent

\* C11: continuation turns are not counted against the retry budget and are
\* not bounded: a step that receives a truncated response leaves the retry
\* counter unchanged and leaves analyze_code in its loop, so with truncated
\* responses only it neither returns nor raises; once a complete response or
\* a third transport failure has occurred, analyze_code terminates.
C11_ContinuationUnbounded ==
    /\ []C11_StateInv
    /\ [][(Len(requests') > Len(requests) /\ IsTruncated(requests'[Len(requests')]))
             => (retries' = retries /\ a_pc' = "loop")]_vars
    /\ (EndingEvent ~> Terminated)

\* C11 witness: more continuation turns than the retry budget has retries,
\* no failure, the counter still at 3 and the loop still running.
C11_Witness ==
    /\ a_pc = "loop"
    /\ retries = InitialRetries
    /\ Len(requests) > InitialRetries + 1
    /\ \A j \in DOMAIN requests : IsTruncated(requests[j])

\* C12: one delay is taken per transport failure, the third (the one followed
\* by the re-raise) included, and the delay after the k-th failure is
\* analysis_interval * 2^k, each delay twice the one before it.
C12_BackoffDoubles ==
    DriverRunning =>
        /\ Len(sleeps) = FailCount(requests)
        /\ \A k \in DOMAIN sleeps : sleeps[k] = analysis_interval * (2 ^ k)
        /\ \A k \in 1..(Len(sleeps) - 1) : sleeps[k + 1] = 2 * sleeps[k]

\* C12 witness: three failures with a truncated response among the calls, an
\* interval of 2, delays 4, 8, 16 and the re-raise.
C12_Witness ==
    /\ a_pc = "raised"
    /\ analysis_interval = 2
    /\ sleeps = <<4, 8, 16>>
    /\ TruncCount(requests) >= 1

IsPrefix(a, b) == Len(a) <= Len(b) /\ \A i \in DOMAIN a : b[i] = a[i]

\* C14: the message list only grows at its end: every list sent so far is a
\* prefix of the current one (so the messages present at entry are unchanged
\* and in place), every message added is a user-role message, and the length
\* is the length at entry plus the number of truncated responses received;
\* a complete response and a transport failure add nothing.
C14_MessagesAppendOnly ==
    (DriverRunning /\ Len(requests) >= 1) =>
        LET entry == requests[1].sent
        IN  /\ entry \in EntryMessages
            /\ IsPrefix(entry, messages)
            /\ Len(messages) = Len(entry) + TruncCount(requests)
            /\ \A i \in (Len(entry) + 1)..Len(messages) : messages[i].role = "user"
            /\ \A j \in DOMAIN requests :
                   /\ IsPrefix(requests[j].sent, messages)
                   /\ Len(requests[j].sent) =
                          Len(entry) + TruncCount(SubSeq(requests, 1, j - 1))

\* C14 witness: an exchange entered with two messages in which two truncated
\* responses, a failure and a complete response were received: four messages.
C14_Witness ==
    /\ a_pc = "returned"
    /\ Len(requests[1].sent) = 2
    /\ TruncCount(requests) = 2
    /\ FailCount(requests) >= 1
    /\ Len(messages) = 4

----------------------------------------------------------------------------
(* extract_patch_text, apply_patch and apply_suggested_changes *)

\* "```diff", the opening fence of a diff block
DIFF_OPEN == FENCE \o <<"d", "i", "f", "f">>

\* the least element of a non-empty set of integers
Least(S) == CHOOSE x \in S : \A y \in S : x <= y

\* the start positions (1-based) of the occurrences of pat in text
Occurrences(text, pat) ==
    {i \in 1..(Len(text) - Len(pat) + 1) : SubSeq(text, i, i + Len(pat) - 1) = pat}

\* a variant whose pattern accepts any fenced block: ```([\s\S]*?)```
extract_patch_text_anyfence(text) ==
    LET opens == Occurrences(text, FENCE)
    IN  IF opens = {} THEN <<>>
        ELSE LET i == Least(opens)
                 closes == {j \in Occurrences(text, FENCE) : j >= i + Len(FENCE)}
             IN  IF closes = {} THEN <<>>
                 ELSE strip(SubSeq(text, i + Len(FENCE), Least(closes) - 1))

\* lines 153-159: the first match of ```diff([\s\S]*?)``` (leftmost opening
\* fence, then the nearest closing fence after it), its group trimmed; the
\* empty text if there is no match.  (Two opening fences cannot overlap, so a
\* match exists iff one exists at the leftmost opening fence.)
extract_patch_text(text) ==
    LET opens == Occurrences(text, DIFF_OPEN)
    IN  IF opens = {} THEN <<>>
        ELSE LET i == Least(opens)
                 closes == {j \in Occurrences(text, FENCE) : j >= i + Len(DIFF_OPEN)}
             IN  IF closes = {} THEN <<>>
                 ELSE strip(SubSeq(text, i + Len(DIFF_OPEN), Least(closes) - 1))

\* str.splitlines(True): the lines with their terminators
splitlines_keepends(s) ==
    LET RECURSIVE go(_, _, _)
        go(i, cur, acc) ==
            IF i > Len(s) THEN (IF cur = <<>> THEN acc ELSE Append(acc, cur))
            ELSE IF s[i] = NL THEN go(i + 1, <<>>, Append(acc, Append(cur, s[i])))
            ELSE go(i + 1, Append(cur, s[i]), acc)
    IN  go(1, <<>>, <<>>)

\* The diff library is outside the program.  PatchSet.from_string: the empty
\* text parses to a patch without file entries; any other text is either
\* rejected or parsed to a patch (with or without file entries).
PatchSet_from_string(patch_text) ==
    IF patch_text = <<>>
    THEN {[ok |-> TRUE, files |-> 0]}
    ELSE {[ok |-> FALSE, files |-> 0], [ok |-> TRUE, files |-> 0], [ok |-> TRUE, files |-> 1]}

\* the texts a patch with file entries can turn a file into
PatchedTexts == {<<"n", NL>>}

\* The library's apply_patch on the lines of the original: a patch without
\* file entries leaves the lines as they are; one with file entries either
\* does not apply (context mismatch) or yields the lines of a patched text.
lib_apply_patch(lines, patch) ==
    IF patch.files = 0
    THEN {[ok |-> TRUE, lines |-> lines]}
    ELSE {[ok |-> FALSE, lines |-> <<>>]}
            \cup {[ok |-> TRUE, lines |-> splitlines_keepends(t)] : t \in PatchedTexts}

\* lines 162-165: apply_patch(original_code, patch): the possible results
apply_patch(original_code, patch) ==
    {[ok |-> r.ok, text |-> concat(r.lines)] :
        r \in lib_apply_patch(splitlines_keepends(original_code), patch)}

\* lines 208-210 and 179-181: extract, parse, apply; the possible results, each
\* [error |-> "none" | "parse" | "apply", text |-> the final code]
patch_results(original_code, response) ==
    LET patch_text == extract_patch_text(response)
    IN  UNION {IF ~patch.ok
               THEN {[error |-> "parse", text |-> <<>>]}
               ELSE {[error |-> IF r.ok THEN "none" ELSE "apply", text |-> r.text] :
                        r \in apply_patch(original_code, patch)} :
               patch \in PatchSet_from_string(patch_text)}

\* lines 178-181
apply_suggested_changes(original_code, response) ==
    patch_results(original_code, response)

----------------------------------------------------------------------------
(* The harness around extract_patch_text and apply_suggested_changes *)

PatchTokens == {DIFF_OPEN, FENCE, <<TICK>>, <<"a">>, <<NL>>}

\* every text that is the concatenation of at most MaxTokens tokens
ResponseCorpus == {concat(ts) : ts \in SeqsUpTo(PatchTokens, MaxTokens)}

Originals == {<<>>, <<"a", NL>>, <<"a", NL, "b">>}

InitPatch ==
    /\ p_original \in Originals
    /\ p_response \in ResponseCorpus
    /\ p_patch_text = <<>>
    /\ p_result = <<>>
    /\ p_error = "none"
    /\ p_pc = "init"
    /\ IdleFilter
    /\ IdleChunks
    /\ IdleDriver
    /\ IdleFiles

ExtractCall ==
    /\ p_pc = "init"
    /\ p_patch_text' = extract_patch_text(p_response)
    /\ p_pc' = "extracted"
    /\ UNCHANGED <<p_original, p_response, p_result, p_error, notPatch>>

ApplySuggestedCall ==
    /\ p_pc = "extracted"
    /\ \E r \in apply_suggested_changes(p_original, p_response) :
        /\ p_error' = r.error
        /\ p_result' = r.text
        /\ p_pc' = IF r.error = "none" THEN "applied" ELSE "failed"
    /\ UNCHANGED <<p_original, p_response, p_patch_text, notPatch>>

NextPatch ==
    \/ ExtractCall
    \/ ApplySuggestedCall

SpecPatch == InitPatch /\ [][NextPatch]_vars

\* the text holds an opening diff fence and a closing fence after it
HasDiffBlock(text) ==
    \E i \in 1..Len(text), j \in 1..Len(text) :
        /\ j >= i + 7
        /\ j + 2 <= Len(text)
        /\ SubSeq(text, i, i + 6) = <<TICK, TICK, TICK, "d", "i", "f", "f">>
        /\ SubSeq(text, j, j + 2) = <<TICK, TICK, TICK>>

\* C8: for a response without a fenced diff block, extract_patch_text returns
\* the empty text and apply_suggested_changes returns the original content
\* unchanged, without raising.
C8_NoDiffIsNoOp ==
    (p_pc \in {"extracted", "applied", "failed"} /\ ~HasDiffBlock(p_response)) =>
        /\ p_patch_text = <<>>
        /\ p_pc # "failed"
        /\ p_pc = "applied" => (p_error = "none" /\ p_result = p_original)

\* C8 witness: a response holding a fenced block that is no diff block was
\* applied to a non-empty original whose last line has no terminator.
C8_Witness ==
    /\ p_pc = "applied"
    /\ ~HasDiffBlock(p_response)
    /\ p_response = FENCE \o <<"a">> \o FENCE
    /\ p_original = <<"a", NL, "b">>

----------------------------------------------------------------------------
(* analyze_files, process_file and process_header_file.  process_file runs *)
(* split_code_into_chunks and analyze_code as modelled above: it sets up   *)
(* their inputs and goes on when they are done.  The project folder, the   *)
(* parser, the completion service, the diff library and the database are   *)
(* outside the program.                                                    *)

\* the .cpp files in the order os.walk yields them
CppFiles == <<"x.cpp", "y.cpp">>

\* what a .cpp file of the project can be: two declarations that fill two
\* chunks, or nothing but a blank line (no chunk with characters)
ProjectSources ==
    { [text |-> <<"a", "a", NL, "a", "a">>, marks |-> <<3>>],
      [text |-> <<NL>>, marks |-> <<>>] }

\* the inclusion directives extract_headers_from_cpp_file can find in a file
IncludeLists == { <<>>, <<"a.h">>, <<"b.h", "a.h">> }

Headers == {"a.h", "b.h"}

\* the text of every header
HeaderText == <<"h", NL>>

\* the texts the service answers with while files are processed: complete
\* without a diff block, complete with a diff block, truncated
FileResponseTexts ==
    { <<"a">> \o FENCE,
      DIFF_OPEN \o <<"p">> \o FENCE,
      <<"a", NL, "b">> }

\* config["max_code_length"] - prompt_length of line 194
FileBudget == MaxL

\* open(path, 'w').write(text)
WriteFile(files, path, text) ==
    {e \in files : e.path # path} \cup {[path |-> path, text |-> text]}

\* line 282 for one header: header_dependencies[header].add(file_path)
RegisterHeader(deps, header, file) ==
    IF \E k \in DOMAIN deps : deps[k].header = header
    THEN [k \in DOMAIN deps |->
             IF deps[k].header = header
             THEN [header |-> header, sources |-> deps[k].sources \cup {file}]
             ELSE deps[k]]
    ELSE Append(deps, [header |-> header, sources |-> {file}])

\* lines 281-282
RECURSIVE RegisterHeaders(_, _, _)
RegisterHeaders(deps, headers, file) ==
    IF headers = <<>> THEN deps
    ELSE RegisterHeaders(RegisterHeader(deps, Head(headers), file), Tail(headers), file)

\* the audit diff of lines 168-175, kept as the pair it is computed from
generate_diff(original_code, final_code) == <<"diff", original_code, final_code>>

CurrentFile == CppFiles[file_idx]

InitFiles ==
    /\ project \in [{CppFiles[i] : i \in DOMAIN CppFiles} -> ProjectSources]
    /\ existing_headers \in SUBSET Headers
    /\ header_dependencies = <<>>
    /\ file_idx = 1
    /\ hdr_idx = 1
    /\ af_pc = "files"
    /\ pf_pc = "idle"
    /\ combined_code = <<>>
    /\ raised_in = "none"
    /\ fs = {}
    /\ db = <<>>
    /\ attempted = <<>>
    /\ errors = <<>>
    /\ messages = <<>>
    /\ analysis_interval = 1
    /\ retries = 0
    /\ response_text = <<>>
    /\ requests = <<>>
    /\ sleeps = <<>>
    /\ a_pc = "idle"
    /\ IdleFilter
    /\ IdleChunks
    /\ IdlePatch

\* the driver, the chunker and the harnesses are left alone
FilesOnly == <<filterVars, chunkVars, driverVars, patchVars>>

\* lines 276-282: the next .cpp file; the try block is entered and the headers
\* are extracted (or the parser raises)
FileBegin ==
    /\ af_pc = "files"
    /\ pf_pc = "idle"
    /\ file_idx <= Len(CppFiles)
    /\ attempted' = Append(attempted, CurrentFile)
    /\ \/ \E headers \in IncludeLists :
            /\ header_dependencies' = RegisterHeaders(header_dependencies, headers, CurrentFile)
            /\ pf_pc' = "enter"
            /\ UNCHANGED raised_in
       \/ /\ pf_pc' = "raised"
          /\ raised_in' = "headers"
          /\ UNCHANGED header_dependencies
    /\ UNCHANGED <<project, existing_headers, file_idx, hdr_idx, af_pc, combined_code,
                   fs, db, errors, FilesOnly>>

\* lines 185-194: the file is read and split_code_into_chunks is called (or the
\* parser raises in it)
PF_Read ==
    /\ pf_pc = "enter"
    /\ \/ /\ combined_code' = project[CurrentFile].text
          /\ code' = project[CurrentFile].text
          /\ marks' = project[CurrentFile].marks
          /\ max_code_length' = FileBudget
          /\ c_pc' = "start"
          /\ pf_pc' = "chunking"
          /\ UNCHANGED raised_in
       \/ /\ pf_pc' = "raised"
          /\ raised_in' = "split"
          /\ UNCHANGED <<combined_code, code, marks, max_code_length, c_pc>>
    /\ UNCHANGED <<project, existing_headers, header_dependencies, file_idx, hdr_idx,
                   af_pc, fs, db, attempted, errors>>
    /\ UNCHANGED <<code_parts, part_idx, chunk, chunks, filtered_parts, chunk_parts,
                   chunks_parts, filterVars, driverVars, patchVars>>

\* lines 195-201: no chunk with characters: return; else one system message per
\* chunk, and analyze_code is called
PF_Messages ==
    /\ pf_pc = "chunking"
    /\ c_pc = "done"
    /\ IF \A i \in DOMAIN chunks : chunks[i] = <<>>
       THEN /\ pf_pc' = "returned"
            /\ UNCHANGED <<messages, a_pc>>
       ELSE /\ messages' = [i \in DOMAIN chunks |-> part_message(i, Len(chunks), chunks[i])]
            /\ a_pc' = "entry"
            /\ pf_pc' = "exchange"
    /\ code' = <<>>
    /\ marks' = <<>>
    /\ max_code_length' = 0
    /\ code_parts' = <<>>
    /\ part_idx' = 0
    /\ chunk' = <<>>
    /\ chunks' = <<>>
    /\ filtered_parts' = <<>>
    /\ chunk_parts' = <<>>
    /\ chunks_parts' = <<>>
    /\ c_pc' = "idle"
    /\ UNCHANGED <<project, existing_headers, header_dependencies, file_idx, hdr_idx,
                   af_pc, combined_code, raised_in, fs, db, attempted, errors>>
    /\ UNCHANGED <<analysis_interval, retries, response_text, requests, sleeps,
                   filterVars, patchVars>>

\* lines 201-207: analyze_code has returned: the copy of the source and the
\* suggestions are written; or it has raised
PF_AfterExchange ==
    /\ pf_pc = "exchange"
    /\ a_pc \in {"returned", "raised"}
    /\ IF a_pc = "raised"
       THEN /\ pf_pc' = "raised"
            /\ raised_in' = "exchange"
            /\ UNCHANGED fs
       ELSE /\ fs' = WriteFile(WriteFile(fs, <<"original_", CurrentFile>>, combined_code),
                               <<"suggestions_", CurrentFile>>, response_text)
            /\ pf_pc' = "patch"
            /\ UNCHANGED raised_in
    /\ retries' = 0
    /\ requests' = <<>>
    /\ sleeps' = <<>>
    /\ a_pc' = "idle"
    /\ UNCHANGED <<project, existing_headers, header_dependencies, file_idx, hdr_idx,
                   af_pc, combined_code, db, attempted, errors>>
    /\ UNCHANGED <<messages, analysis_interval, response_text, filterVars, chunkVars,
                   patchVars>>

\* a variant that writes the final file before the patch is parsed and applied
PF_Patch_writefirst ==
    /\ pf_pc = "patch"
    /\ \E r \in patch_results(combined_code, response_text) :
        IF r.error # "none"
        THEN /\ pf_pc' = "raised"
             /\ raised_in' = "patch"
             /\ fs' = WriteFile(fs, <<"", CurrentFile>>, combined_code)
        ELSE /\ fs' = WriteFile(fs, <<"", CurrentFile>>, r.text)
             /\ pf_pc' = "persist"
             /\ UNCHANGED raised_in
    /\ UNCHANGED <<project, existing_headers, header_dependencies, file_idx, hdr_idx,
                   af_pc, combined_code, db, attempted, errors, FilesOnly>>

\* lines 208-213: the patch is extracted, parsed and applied, and the final file
\* written; or the parsing or the application raises
PF_Patch ==
    /\ pf_pc = "patch"
    /\ \E r \in patch_results(combined_code, response_text) :
        IF r.error # "none"
        THEN /\ pf_pc' = "raised"
             /\ raised_in' = "patch"
             /\ UNCHANGED fs
        ELSE /\ fs' = WriteFile(fs, <<"", CurrentFile>>, r.text)
             /\ pf_pc' = "persist"
             /\ UNCHANGED raised_in
    /\ UNCHANGED <<project, existing_headers, header_dependencies, file_idx, hdr_idx,
                   af_pc, combined_code, db, attempted, errors, FilesOnly>>

\* the text of the final file of the current file
FinalCode == (CHOOSE e \in fs : e.path = <<"", CurrentFile>>).text

\* lines 214-218: the records are added and committed; or the commit raises
PF_Persist ==
    /\ pf_pc = "persist"
    /\ \/ /\ db' = Append(db, [path |-> CurrentFile,
                               content |-> combined_code,
                               prompt |-> messages[Len(messages)].content,
                               response |-> response_text,
                               diff |-> generate_diff(combined_code, FinalCode)])
          /\ pf_pc' = "returned"
          /\ UNCHANGED raised_in
       \/ /\ pf_pc' = "raised"
          /\ raised_in' = "persist"
          /\ UNCHANGED db
    /\ UNCHANGED <<project, existing_headers, header_dependencies, file_idx, hdr_idx,
                   af_pc, combined_code, fs, attempted, errors, FilesOnly>>

\* lines 283-284: process_file has returned; on to the next file
FileDone ==
    /\ pf_pc = "returned"
    /\ file_idx' = file_idx + 1
    /\ pf_pc' = "idle"
    /\ combined_code' = <<>>
    /\ messages' = <<>>
    /\ response_text' = <<>>
    /\ UNCHANGED <<project, existing_headers, header_dependencies, hdr_idx, af_pc,
                   raised_in, fs, db, attempted, errors>>
    /\ UNCHANGED <<analysis_interval, retries, requests, sleeps, a_pc, filterVars,
                   chunkVars, patchVars>>

\* a variant of the handler that lets the failure end analyze_files
FileCatch_reraise ==
    /\ pf_pc = "raised"
    /\ errors' = Append(errors, [name |-> CurrentFile, step |-> raised_in])
    /\ af_pc' = "done"
    /\ pf_pc' = "idle"
    /\ raised_in' = "none"
    /\ combined_code' = <<>>
    /\ messages' = <<>>
    /\ response_text' = <<>>
    /\ UNCHANGED <<project, existing_headers, header_dependencies, file_idx, hdr_idx,
                   fs, db, attempted>>
    /\ UNCHANGED <<analysis_interval, retries, requests, sleeps, a_pc, filterVars,
                   chunkVars, patchVars>>

\* lines 285-286: the except clause of the file loop: the failure is printed,
\* and the loop goes on with the next file
FileCatch ==
    /\ pf_pc = "raised"
    /\ errors' = Append(errors, [name |-> CurrentFile, step |-> raised_in])
    /\ file_idx' = file_idx + 1
    /\ pf_pc' = "idle"
    /\ raised_in' = "none"
    /\ combined_code' = <<>>
    /\ messages' = <<>>
    /\ response_text' = <<>>
    /\ UNCHANGED <<project, existing_headers, header_dependencies, hdr_idx, af_pc,
                   fs, db, attempted>>
    /\ UNCHANGED <<analysis_interval, retries, requests, sleeps, a_pc, filterVars,
                   chunkVars, patchVars>>

\* line 287: the loop over the files is over
FilesEnd ==
    /\ af_pc = "files"
    /\ pf_pc = "idle"
    /\ file_idx > Len(CppFiles)
    /\ af_pc' = "headers"
    /\ UNCHANGED <<project, existing_headers, header_dependencies, file_idx, hdr_idx,
                   pf_pc, combined_code, raised_in, fs, db, attempted, errors, FilesOnly>>

\* what process_header_file (lines 231-270) can do, by the step it ends at: it
\* returns early (a source without chunks), raises before anything is written
\* (reading, splitting, an exchange), raises in the patch (the copies are
\* written), raises in the commit (the final file is written too), or commits
HeaderEndings == {"return", "raise_early", "raise_patch", "raise_persist", "commit"}

\* the files process_header_file has written when it ends that way
HeaderWrites(files, header, ending) ==
    LET copies == WriteFile(WriteFile(files, <<"original_", header>>, HeaderText),
                            <<"suggestions_", header>>, <<"a">> \o FENCE)
    IN  IF ending \in {"return", "raise_early"} THEN files
        ELSE IF ending = "raise_patch" THEN copies
        ELSE WriteFile(copies, <<"", header>>, HeaderText)

\* lines 287-294: the next header of header_dependencies: skipped if it does
\* not exist, else processed in its own try block
HeaderStep ==
    /\ af_pc = "headers"
    /\ hdr_idx <= Len(header_dependencies)
    /\ LET header == header_dependencies[hdr_idx].header
       IN  IF header \notin existing_headers
           THEN UNCHANGED <<fs, db, attempted, errors>>
           ELSE /\ attempted' = Append(attempted, header)
                /\ \E ending \in HeaderEndings :
                    /\ fs' = HeaderWrites(fs, header, ending)
                    /\ db' = IF ending = "commit"
                             THEN Append(db, [path |-> header,
                                              content |-> HeaderText,
                                              prompt |-> <<"part", 1, 1, HeaderText>>,
                                              response |-> <<"a">> \o FENCE,
                                              diff |-> generate_diff(HeaderText, HeaderText)])
                             ELSE db
                    /\ errors' = IF ending \in {"raise_early", "raise_patch", "raise_persist"}
                                 THEN Append(errors, [name |-> header, step |-> ending])
                                 ELSE errors
    /\ hdr_idx' = hdr_idx + 1
    /\ UNCHANGED <<project, existing_headers, header_dependencies, file_idx, af_pc,
                   pf_pc, combined_code, raised_in, FilesOnly>>

\* the loop over the headers is over: analyze_files returns
HeadersEnd ==
    /\ af_pc = "headers"
    /\ hdr_idx > Len(header_dependencies)
    /\ af_pc' = "done"
    /\ UNCHANGED <<project, existing_headers, header_dependencies, file_idx, hdr_idx,
                   pf_pc, combined_code, raised_in, fs, db, attempted, errors, FilesOnly>>

\* analyze_code and split_code_into_chunks run only while process_file waits
\* for them
NextFiles ==
    \/ FileBegin
    \/ PF_Read
    \/ SplitCall
    \/ PackPart
    \/ PackReturn
    \/ PF_Messages
    \/ AnalyzeEnter
    \/ AnalyzeCall(FileResponseTexts)
    \/ PF_AfterExchange
    \/ PF_Patch
    \/ PF_Persist
    \/ FileDone
    \/ FileCatch
    \/ FilesEnd
    \/ HeaderStep
    \/ HeadersEnd

SpecFiles == InitFiles /\ [][NextFiles]_vars

----------------------------------------------------------------------------
(* Claims about analyze_files and process_file *)

\* the elements of a sequence, as a set
Range(s) == {s[i] : i \in DOMAIN s}

\* the number of .cpp files whose try block has been entered
FilesEntered ==
    IF af_pc = "files"
    THEN (IF pf_pc = "idle" THEN file_idx - 1 ELSE file_idx)
    ELSE Len(CppFiles)

\* C9: a failure raised while a file is processed is caught at that file's
\* iteration: the loop goes on with the next file, so that processing is
\* attempted for every .cpp file in order and, after them, for every
\* discovered header that exists; analyze_files ends only after that.
C9_FailuresDoNotStopTheRun ==
    af_pc \in {"files", "headers", "done"} =>
        /\ FilesEntered <= Len(attempted)
        /\ SubSeq(attempted, 1, FilesEntered) = SubSeq(CppFiles, 1, FilesEntered)
        /\ \A i \in DOMAIN CppFiles :
               (\E e \in Range(errors) : e.name = CppFiles[i]) => file_idx > i
        /\ af_pc \in {"headers", "done"} => file_idx = Len(CppFiles) + 1
        /\ af_pc = "done" =>
               \A k \in DOMAIN header_dependencies :
                   header_dependencies[k].header \in existing_headers
                       => header_dependencies[k].header \in Range(attempted)

\* C9 witness: the first file failed in its exchange; the second file was
\* processed and committed, and a header it includes was processed after a
\* header that failed.
C9_Witness ==
    /\ af_pc = "done"
    /\ [name |-> "x.cpp", step |-> "exchange"] \in Range(errors)
    /\ \E k \in DOMAIN db : db[k].path = "y.cpp"
    /\ [name |-> "b.h", step |-> "raise_early"] \in Range(errors)
    /\ \E k \in DOMAIN db : db[k].path = "a.h"

\* the file failed in the parsing or the application of its patch
PatchFailed(file) ==
    \/ [name |-> file, step |-> "patch"] \in Range(errors)
    \/ (pf_pc = "raised" /\ raised_in = "patch" /\ CurrentFile = file)

\* C10: when the parsing or the application of the patch fails in
\* process_file, the final output file of that file is never written and no
\* record of it is committed, while its 'original_' copy, holding the
\* unmodified source, is written.
C10_PatchFailureKeepsOriginal ==
    \A i \in DOMAIN CppFiles :
        (af_pc # "idle" /\ PatchFailed(CppFiles[i])) =>
            /\ ~\E e \in fs : e.path = <<"", CppFiles[i]>>
            /\ ~\E k \in DOMAIN db : db[k].path = CppFiles[i]
            /\ [path |-> <<"original_", CppFiles[i]>>, text |-> project[CppFiles[i]].text] \in fs

\* C10 witness: the patch of the first file failed, and the second file was
\* then patched, written and committed.
C10_Witness ==
    /\ af_pc = "done"
    /\ PatchFailed("x.cpp")
    /\ \E e \in fs : e.path = <<"", "y.cpp">> /\ e.text \in PatchedTexts
    /\ \E k \in DOMAIN db : db[k].path = "y.cpp"

\* the messages built from the chunks (line 200), which are the system-role
\* messages of the list
ChunkMessages(msgs) == SelectSeq(msgs, LAMBDA m : m.role = "system")

\* the record committed for the file
RecordOf(file) == db[CHOOSE k \in DOMAIN db : db[k].path = file]

\* process_file has committed the record of the current file
FileCommitted ==
    /\ af_pc = "files"
    /\ pf_pc = "returned"
    /\ \E k \in DOMAIN db : db[k].path = CurrentFile

\* C16 (as claimed): the prompt persisted for a processed file is the content
\* of the message of its last chunk, whatever the number of continuation
\* turns of the exchange.
C16_PromptIsLastChunkMessage ==
    FileCommitted =>
        LET cm == ChunkMessages(messages)
        IN  RecordOf(CurrentFile).prompt = cm[Len(cm)].content

====
